---- MODULE Spec2Model ----
(***************************************************************************)
(* RaBitModel (src/src/retarget2raBit.py): the numpy body-model engine.    *)
(*                                                                         *)
(* Arithmetic is exact integer arithmetic.  Lengths are counted on a grid  *)
(* fine enough that every midpoint (max + min) / 2 and every weighted sum  *)
(* divided by WeightDen is again an integer; rotation vectors are counted  *)
(* in quarter turns about one coordinate axis, so cos and sin are -1, 0, 1 *)
(* and the Euclidean norm of a rotation vector is the sum of the absolute  *)
(* values of its components.  Indices are 0-based as in the source.        *)
(***************************************************************************)
EXTENDS Integers, Sequences, FiniteSets, TLC

\* ------------------------------------------------------------------ sizes
\* Number of joints: the literal 24 of __init__ and update.
NJ == 24
\* Number of mesh vertices (rows of mean.obj) and of PCA components.
NV == 3
NK == 2
\* Coordinates of the data files are multiples of Grid; skinning weights are
\* numerators over WeightDen (a weight w stands for w / WeightDen).
Grid == 4
WeightDen == 2
\* The cluster name joints_list compares against.
RootNode == 0
\* The fallback value written to reorder_index[0].
Fallback == 2
\* load_smpl_params: the length of its local beta and where shape_params goes.
BetaLen == 500
ShapeFrom == 10

Joints == 0 .. (NJ - 1)
Axes == 1 .. 3

\* ------------------------------------------------------------ numpy helpers
Abs(x) == IF x < 0 THEN -x ELSE x
Max2(a, b) == IF a >= b THEN a ELSE b

RECURSIVE SumTo(_, _)
\* sum of f[0] + ... + f[n-1]
SumTo(f, n) == IF n = 0 THEN 0 ELSE SumTo(f, n - 1) + f[n - 1]

RECURSIVE SumOver(_, _)
\* sum of f[x] over x in S
SumOver(f, S) ==
    IF S = {} THEN 0
    ELSE LET x == CHOOSE y \in S : TRUE IN f[x] + SumOver(f, S \ {x})

\* numpy indexing of an axis of length n by k: negative k counts from the end.
InRange(k, n) == k >= -n /\ k < n
PyIndex(k, n) == IF k < 0 THEN k + n ELSE k

Zero3 == <<0, 0, 0>>
I3 == <<<<1, 0, 0>>, <<0, 1, 0>>, <<0, 0, 1>>>>
Zero4x4 == <<<<0, 0, 0, 0>>, <<0, 0, 0, 0>>, <<0, 0, 0, 0>>, <<0, 0, 0, 0>>>>

\* 4x4 matrix product (ndarray.dot of two [4,4] arrays).
Dot4(A, B) ==
    LET e(r, c) == A[r][1] * B[1][c] + A[r][2] * B[2][c]
                 + A[r][3] * B[3][c] + A[r][4] * B[4][c]
    IN  << <<e(1,1), e(1,2), e(1,3), e(1,4)>>,
           <<e(2,1), e(2,2), e(2,3), e(2,4)>>,
           <<e(3,1), e(3,2), e(3,3), e(3,4)>>,
           <<e(4,1), e(4,2), e(4,3), e(4,4)>> >>

\* np.hstack of a [3,3] matrix and a [3,1] column.
HStack(Rm, t) ==
    << <<Rm[1][1], Rm[1][2], Rm[1][3], t[1]>>,
       <<Rm[2][1], Rm[2][2], Rm[2][3], t[2]>>,
       <<Rm[3][1], Rm[3][2], Rm[3][3], t[3]>> >>

\* with_zeros: append the row [0, 0, 0, 1] to a [3,4] matrix.
with_zeros(x) == << x[1], x[2], x[3], <<0, 0, 0, 1>> >>

\* One [4,4] slice of pack: three zero columns, then the [4,1] column x.
pack(x) ==
    << <<0, 0, 0, x[1]>>, <<0, 0, 0, x[2]>>, <<0, 0, 0, x[3]>>, <<0, 0, 0, x[4]>> >>

\* G - P, entry by entry.
Sub4(A, B) ==
    LET e(r, c) == A[r][c] - B[r][c]
    IN  << <<e(1,1), e(1,2), e(1,3), e(1,4)>>,
           <<e(2,1), e(2,2), e(2,3), e(2,4)>>,
           <<e(3,1), e(3,2), e(3,3), e(3,4)>>,
           <<e(4,1), e(4,2), e(4,3), e(4,4)>> >>

\* [4,4] matrix times [4,1] column.
MatVec4(A, v) ==
    LET e(r) == A[r][1] * v[1] + A[r][2] * v[2] + A[r][3] * v[3] + A[r][4] * v[4]
    IN  <<e(1), e(2), e(3), e(4)>>

\* ------------------------------------------------------------- rodrigues
\* cos and sin of theta quarter turns.
CosQ(theta) == CASE theta % 4 = 0 -> 1 [] theta % 4 = 1 -> 0
                 [] theta % 4 = 2 -> -1 [] OTHER -> 0
SinQ(theta) == CASE theta % 4 = 0 -> 0 [] theta % 4 = 1 -> 1
                 [] theta % 4 = 2 -> 0 [] OTHER -> -1

\* np.linalg.norm of an axis-aligned vector.
Norm(r) == Abs(r[1]) + Abs(r[2]) + Abs(r[3])

\* rodrigues for one element of the batch.  theta is clamped from below by
\* finfo.tiny: for r = 0 this gives r_hat = 0 / tiny = 0, cos(tiny) = 1 and
\* sin(tiny) * m = 0 because m is built from r_hat.
rodrigues1(r) ==
    LET theta == Norm(r)
        r_hat == IF theta = 0 THEN Zero3
                 ELSE <<r[1] \div theta, r[2] \div theta, r[3] \div theta>>
        cos   == CosQ(theta)
        sin   == SinQ(theta)
        m     == << <<0, -r_hat[3], r_hat[2]>>,
                    <<r_hat[3], 0, -r_hat[1]>>,
                    <<-r_hat[2], r_hat[1], 0>> >>
        e(a, b) == cos * I3[a][b] + (1 - cos) * (r_hat[a] * r_hat[b]) + sin * m[a][b]
    IN  << <<e(1,1), e(1,2), e(1,3)>>,
           <<e(2,1), e(2,2), e(2,3)>>,
           <<e(3,1), e(3,2), e(3,3)>> >>

\* rodrigues: the batch of rotation matrices of a [batch, 1, 3] array.
rodrigues(r) == [b \in DOMAIN r |-> rodrigues1(r[b])]

\* --------------------------------------------------------------- __init__
Size(a) == Cardinality(DOMAIN a)

\* An ndarray as a value: its entries are computed once, when it is built.
Array(f) == f @@ <<>>

\* index2cluster: the cluster dictionary inverted (lines 48-51).
Index2Cluster(clusterdic) ==
    [v \in {clusterdic[key] : key \in DOMAIN clusterdic} |->
        CHOOSE key \in DOMAIN clusterdic : clusterdic[key] = v]

\* self.ktree_table: -1 for the root, the table's parent column for 1..23.
ParentTable(ktree_table) ==
    [i \in Joints |-> IF i = 0 THEN -1 ELSE ktree_table[i][2]]

RECURSIVE Name2IndexLoop(_, _, _)
\* name2index after the iterations i, ..., 23 of the loop of line 61: a later
\* joint with the same name overwrites an earlier one.
Name2IndexLoop(ktree_table, name2index, i) ==
    IF i = NJ THEN name2index
    ELSE LET name == ktree_table[i][1]
             next == [k \in DOMAIN name2index \cup {name} |->
                         IF k = name THEN i ELSE name2index[k]]
         IN  Name2IndexLoop(ktree_table, next, i + 1)

Name2Index(ktree_table) == Name2IndexLoop(ktree_table, <<>>, 1)

RECURSIVE ReorderLoop(_, _, _, _)
\* reorder_index after the iterations i, ... of the loop of lines 65-69.
ReorderLoop(joint_order, name2index, reorder_index, i) ==
    IF i = Size(joint_order) THEN reorder_index
    ELSE LET jointname == joint_order[i]
             next == IF jointname \in DOMAIN name2index
                     THEN [reorder_index EXCEPT ![name2index[jointname]] = i]
                     ELSE [reorder_index EXCEPT ![0] = Fallback]
         IN  ReorderLoop(joint_order, name2index, next, i + 1)

ReorderIndex(joint_order, ktree_table) ==
    ReorderLoop(joint_order, Name2Index(ktree_table), [i \in Joints |-> 0], 0)

\* The attributes __init__ sets from the data files (lines 43-90).
LoadRig(d) ==
    [ v_template    |-> d.points,
      shapedirs     |-> d.pcamat,
      weights       |-> d.weight_matrix,
      parent        |-> ParentTable(d.ktree_table),
      reorder_index |-> ReorderIndex(d.pose_order, d.ktree_table),
      index2cluster |-> Index2Cluster(d.clusterdic),
      joint2index   |-> d.joint2index,
      faces         |-> d.cells ]

\* ------------------------------------------------------------ joints_list
MaxOver(S) == CHOOSE x \in S : \A y \in S : y <= x
MinOver(S) == CHOOSE x \in S : \A y \in S : x <= y

\* The keys and indices joints_list looks up all exist and no cluster is
\* empty: otherwise it raises (KeyError, IndexError, ValueError).
JointsListOk(rig, v_posed) ==
    LET n == Size(rig.index2cluster)
    IN  \A i \in 0 .. (n - 1) :
           /\ i \in DOMAIN rig.index2cluster
           /\ LET key == rig.index2cluster[i]
              IN  key # RootNode =>
                     /\ key \in DOMAIN rig.joint2index
                     /\ rig.joint2index[key] # <<>>
                     /\ \A k \in DOMAIN rig.joint2index[key] :
                           InRange(rig.joint2index[key][k], Size(v_posed))

\* joints_list with the centroid of the cluster in place of the midpoint.
joints_list_centroid(rig, v_posed) ==
    LET n == Size(rig.index2cluster)
        row(i) ==
            LET key == rig.index2cluster[i]
                idx == rig.joint2index[key]
                mean(a) == SumOver([k \in DOMAIN idx |->
                                       v_posed[PyIndex(idx[k], Size(v_posed))][a]],
                                   DOMAIN idx) \div Len(idx)
            IN  IF key = RootNode THEN Zero3 ELSE <<mean(1), mean(2), mean(3)>>
    IN  [i \in 0 .. (n - 1) |-> row(i)]

\* joints_list (lines 280-291): one row per cluster index.
joints_list(rig, v_posed) ==
    LET n == Size(rig.index2cluster)
        row(i) ==
            LET key == rig.index2cluster[i]
                idx == rig.joint2index[key]
                val(a) == {v_posed[PyIndex(idx[k], Size(v_posed))][a] : k \in DOMAIN idx}
                mid(a) == (MaxOver(val(a)) + MinOver(val(a))) \div 2
            IN  IF key = RootNode THEN Zero3 ELSE <<mid(1), mid(2), mid(3)>>
    IN  [i \in 0 .. (n - 1) |-> row(i)]

\* ----------------------------------------------------------------- update
\* Line 168: shapedirs.T.dot(beta) + v_template.reshape(-1), a vector of 3V
\* entries; entry 3 v + a - 1 is coordinate a of vertex v.
ShapeBlend(rig, beta) ==
    [c \in 0 .. (3 * Size(rig.v_template) - 1) |->
        SumTo([k \in 0 .. (Size(beta) - 1) |-> rig.shapedirs[k][c] * beta[k]], Size(beta))
        + rig.v_template[c \div 3][(c % 3) + 1]]

\* Line 175: v_shaped.reshape(-1, 3).
Reshape3(flat) ==
    [v \in 0 .. ((Size(flat) \div 3) - 1) |->
        <<flat[3 * v], flat[3 * v + 1], flat[3 * v + 2]>>]

\* Number of scalars of a pose array (rows of equal length).
PoseCount(pose) == IF Size(pose) = 0 THEN 0 ELSE Size(pose) * Len(pose[0])

\* Line 173 succeeds: pose reshapes to (-1, 1, 3) and the result broadcasts
\* onto the 23 rows pose_cube[1:].
PoseFits(pose) ==
    /\ PoseCount(pose) % 3 = 0
    /\ PoseCount(pose) \div 3 \in {1, NJ - 1}

\* Scalar f of pose in row-major order, as reshape reads it.
PoseFlat(pose, f) == pose[f \div Len(pose[0])][(f % Len(pose[0])) + 1]

\* PoseCube with the slice off by one: pose_cube[:23] += pose.
PoseCube_rootRow(pose) ==
    [i \in Joints |->
        IF i = NJ - 1 THEN Zero3
        ELSE LET f == IF PoseCount(pose) = 3 THEN 0 ELSE 3 * i
             IN  <<PoseFlat(pose, f), PoseFlat(pose, f + 1), PoseFlat(pose, f + 2)>>]

\* Lines 172-173: row 0 stays zero, rows 1..23 receive the rows of
\* pose.reshape((-1, 1, 3)); a single row is broadcast to all of them.
PoseCube(pose) ==
    [i \in Joints |->
        IF i = 0 THEN Zero3
        ELSE LET f == IF PoseCount(pose) = 3 THEN 0 ELSE 3 * (i - 1)
             IN  <<PoseFlat(pose, f), PoseFlat(pose, f + 1), PoseFlat(pose, f + 2)>>]

RECURSIVE WorldLoop(_, _, _, _, _)
\* Lines 184-192 from iteration i on.  acc.G is the array from np.empty with
\* the entries written so far; acc.early collects the joints whose parent
\* entry was read before this update wrote it.
WorldLoop(parent, Rm, Jm, acc, i) ==
    IF i = NJ THEN acc
    ELSE LET p  == PyIndex(parent[i], NJ)
             dJ == <<Jm[i][1] - Jm[p][1], Jm[i][2] - Jm[p][2], Jm[i][3] - Jm[p][3]>>
             Gi == Dot4(acc.G[p], with_zeros(HStack(Rm[i], dJ)))
         IN  WorldLoop(parent, Rm, Jm,
                       [G     |-> [acc.G EXCEPT ![i] = Gi],
                        early |-> IF p >= i THEN acc.early \cup {i} ELSE acc.early],
                       i + 1)

\* Lines 181-192.  empty is what np.empty's memory holds.
WorldTransforms(parent, Rm, Jm, empty) ==
    WorldLoop(parent, Rm, Jm,
              [G     |-> [[i \in Joints |-> empty] EXCEPT
                              ![0] = with_zeros(HStack(Rm[0], Jm[0]))],
               early |-> {}],
              1)

\* Lines 195-200: remove the transformation due to the rest pose.
RemoveRest(G, Jm) ==
    [i \in Joints |->
        Sub4(G[i], pack(MatVec4(G[i], <<Jm[i][1], Jm[i][2], Jm[i][3], 0>>)))]

\* Line 203: one [4,4] slice of tensordot(weights, G), over WeightDen.  The
\* sum runs over the joints of non-zero weight: the other terms are zero.
Blend(w, G) ==
    LET js == {j \in Joints : w[j] # 0}
        e(r, c) == SumOver([j \in js |-> w[j] * G[j][r][c]], js)
    IN  << <<e(1,1), e(1,2), e(1,3), e(1,4)>>,
           <<e(2,1), e(2,2), e(2,3), e(2,4)>>,
           <<e(3,1), e(3,2), e(3,3), e(3,4)>>,
           <<e(4,1), e(4,2), e(4,3), e(4,4)>> >>

\* Line 205 broadcasts the leading axes of T and rest_shape_h.
Broadcasts(a, b) == a = b \/ a = 1 \/ b = 1

\* Lines 205-206 for one vertex: T applied to the homogeneous rest vertex x,
\* the first three entries kept, trans added.
SkinVertex(T, x, trans) ==
    << ((T[1][1] * x[1] + T[1][2] * x[2] + T[1][3] * x[3] + T[1][4]) \div WeightDen)
          + trans[1],
       ((T[2][1] * x[1] + T[2][2] * x[2] + T[2][3] * x[3] + T[2][4]) \div WeightDen)
          + trans[2],
       ((T[3][1] * x[1] + T[3][2] * x[2] + T[3][3] * x[3] + T[3][4]) \div WeightDen)
          + trans[3] >>

\* Lines 203-206: matmul broadcasts an axis of length 1.
Skin(weights, G, v_posed, trans) ==
    [v \in 0 .. (Max2(Size(weights), Size(v_posed)) - 1) |->
        SkinVertex(Blend(weights[IF Size(weights) = 1 THEN 0 ELSE v], G),
                   v_posed[IF Size(v_posed) = 1 THEN 0 ELSE v],
                   trans)]

\* Posed with the shape blend added in place: v_template.reshape(-1) is a
\* view, so += on it writes the template.
Posed_inplace(o) ==
    IF Size(o.beta) # Size(o.rig.shapedirs) \/ ~PoseFits(o.pose)
    THEN [ok |-> FALSE, o |-> o]
    ELSE [ok |-> TRUE,
          o  |-> [o EXCEPT !.R = Array(rodrigues(PoseCube(o.pose))),
                           !.v_posed = Array(Reshape3(ShapeBlend(o.rig, o.beta))),
                           !.rig.v_template = Array(Reshape3(ShapeBlend(o.rig, o.beta)))]]

\* Lines 168-175 of update on the object o: the shape blend and the joint
\* rotations.  ok tells whether the lines ran through or raised; an
\* exception leaves the attributes assigned before it.
Posed(o) ==
    IF Size(o.beta) # Size(o.rig.shapedirs)                         \* line 168
    THEN [ok |-> FALSE, o |-> o]
    ELSE IF ~PoseFits(o.pose)                                       \* line 173
    THEN [ok |-> FALSE, o |-> o]
    ELSE [ok |-> TRUE,
          o  |-> [o EXCEPT !.R = Array(rodrigues(PoseCube(o.pose))),
                           !.v_posed = Array(Reshape3(ShapeBlend(o.rig, o.beta)))]]

\* Lines 181-206 raise: an index past an axis, or shapes that do not fit.
SkinRaises(o) ==
    \/ Size(o.J) < NJ                                               \* line 185
    \/ \E i \in 1 .. (NJ - 1) : ~InRange(o.rig.parent[i], NJ)
    \/ Size(o.J) # NJ                                               \* line 198
    \/ \E v \in DOMAIN o.rig.weights : Size(o.rig.weights[v]) # NJ  \* line 203
    \/ ~Broadcasts(Size(o.rig.weights), Size(o.v_posed))            \* line 205
    \/ Len(o.trans) # 3                                             \* line 206

\* Line 178 after lines 168-175: self.J = self.joints_list().
Jointed(s) ==
    IF ~s.ok THEN s
    ELSE IF ~JointsListOk(s.o.rig, s.o.v_posed)
    THEN [ok |-> FALSE, o |-> s.o]
    ELSE [ok |-> TRUE,
          o  |-> [s.o EXCEPT !.J = Array(joints_list(s.o.rig, s.o.v_posed))]]

\* Lines 195-206 once the loop has left W.
SkinResult(o, W) ==
    [ok    |-> TRUE,
     early |-> W.early,
     o     |-> [o EXCEPT !.verts = Skin(o.rig.weights, Array(RemoveRest(W.G, o.J)),
                                         o.v_posed, o.trans)]]

\* Lines 181-206 after the lines before them.
Skinned(s, empty) ==
    IF ~s.ok \/ SkinRaises(s.o)
    THEN [ok |-> FALSE, early |-> {}, o |-> s.o]
    ELSE SkinResult(s.o, WorldTransforms(s.o.rig.parent, s.o.R, s.o.J, empty))

\* update (lines 156-206) on the object o with np.empty's memory holding
\* empty.  The result is the object after the call, whether the call
\* returned (ok) or raised, and the joints whose parent transform was read
\* before it was written.
update(o, empty) == Skinned(Jointed(Posed(o)), empty)

\* ------------------------------------------------------------- data files
\* Names are numbers: RootNode, the 23 joint names 1..23, and 24, a name no
\* other table uses.
ParentColumn(kind) ==
    [i \in 1 .. (NJ - 1) |->
        CASE kind = "chain"    -> i - 1
          [] kind = "tree"     -> (i - 1) \div 2
          [] kind = "forward"  -> IF i = 1 THEN 2 ELSE IF i = 2 THEN 0
                                  ELSE IF i = 3 THEN 1 ELSE i - 1
          [] kind = "negative" -> IF i = 2 THEN -1 ELSE i - 1
          [] kind = "high"     -> IF i = NJ - 1 THEN NJ ELSE i - 1
          [] OTHER             -> IF i = 1 THEN -(NJ + 1) ELSE i - 1]

NameColumn(kind) ==
    [i \in 1 .. (NJ - 1) |->
        CASE kind = "std"     -> i
          [] kind = "rev"     -> NJ - i
          [] OTHER            -> IF i = 3 THEN NJ ELSE i]

KtreeTable(parents, names) ==
    [i \in 1 .. (NJ - 1) |-> <<NameColumn(names)[i], ParentColumn(parents)[i]>>]

\* pose_order.npy: 24 different names.
PoseOrder(kind) ==
    [k \in Joints |->
        CASE kind = "root0"  -> k
          [] kind = "root2"  -> IF k = 2 THEN RootNode ELSE IF k < 2 THEN k + 1 ELSE k
          [] kind = "last"   -> IF k = NJ - 1 THEN RootNode ELSE k + 1
          [] OTHER           -> IF k = 0 THEN NJ ELSE k]

ClusterDic(kind) ==
    CASE kind = "std"     -> [n \in Joints |-> n]
      [] kind = "rootAt1" -> [n \in Joints |-> IF n = RootNode THEN 1
                                              ELSE IF n = 1 THEN 0 ELSE n]
      [] OTHER            -> [n \in 0 .. NJ |-> n]

\* joint2index.npy: the vertices of each named cluster, two or three of them.
Joint2Index ==
    [n \in 1 .. NJ |->
        IF n % 2 = 0 THEN <<n % NV, (n + 1) % NV, (n + 2) % NV>>
        ELSE <<n % NV, (n + 1) % NV>>]

MeshPoints(kind) ==
    [v \in 0 .. (NV - 1) |->
        IF kind = "a" THEN <<Grid * (v + 1), Grid * (2 * v - 1), -Grid * v>>
        ELSE <<-Grid * v * v, Grid * 2, Grid * (3 - v)>>]

MeshCells == << <<0, 1, 2>> >>

PcaMat == [k \in 0 .. (NK - 1) |->
              [c \in 0 .. (3 * NV - 1) |-> Grid * (((k + 2 * c) % 3) - 1)]]

WeightMatrix(kind) ==
    LET j1(v) == (7 * v + 3) % NJ
        j2(v) == (11 * v + 1) % NJ
        rows  == CASE kind = "onerow" -> 1 [] kind = "extrarow" -> NV + 1 [] OTHER -> NV
    IN  [v \in 0 .. (rows - 1) |->
            [j \in Joints |->
                CASE kind = "rigid" -> IF j = j1(v) THEN WeightDen ELSE 0
                  [] kind = "heavy" -> IF j \in {j1(v), j2(v)} THEN WeightDen ELSE 0
                  [] OTHER          -> (IF j = j1(v) THEN 1 ELSE 0)
                                     + (IF j = j2(v) THEN 1 ELSE 0)]]

MkData(parents, names, order, clusters, mesh, weights) ==
    [ points        |-> MeshPoints(mesh),
      cells         |-> MeshCells,
      pcamat        |-> PcaMat,
      clusterdic    |-> ClusterDic(clusters),
      joint2index   |-> Joint2Index,
      pose_order    |-> PoseOrder(order),
      weight_matrix |-> WeightMatrix(weights),
      ktree_table   |-> KtreeTable(parents, names) ]

\* What the model is run on: a base data set and, table by table, the
\* variants of that table.
DataSets ==
    {MkData(pr, "std", "root2", "std", "a", "blend") :
        pr \in {"chain", "tree", "forward", "negative", "high", "low"}}
    \cup {MkData("chain", "std", "root2", "std", "a", w) :
        w \in {"rigid", "heavy", "onerow", "extrarow"}}
    \cup {MkData("tree", nm, od, "std", "b", "rigid") :
        nm \in {"std", "rev", "missing"}, od \in {"root0", "last", "noroot"}}
    \cup {MkData("chain", "std", "root2", c, "b", "blend") :
        c \in {"std", "rootAt1", "extra"}}

\* What np.empty's memory may hold: zeros, or an earlier array's numbers.
EmptyMemory ==
    { Zero4x4,
      << <<0, -1, 0, Grid>>, <<1, 0, 0, 0>>, <<0, 0, 1, -Grid>>, <<0, 0, 0, 1>> >> }

\* The contents of np.empty's memory to tell apart for a parent table: they
\* matter only when update reads an entry before writing it.
MemoryFor(parent) ==
    IF \E i \in 1 .. (NJ - 1) : InRange(parent[i], NJ) /\ PyIndex(parent[i], NJ) >= i
    THEN EmptyMemory
    ELSE {Zero4x4}

\* ----------------------------------------------------------------- inputs
\* Python's None: the value with no entries (no array of the model is empty).
None == <<>>

Unit(a, x) == [c \in Axes |-> IF c = a THEN x ELSE 0]

\* Externally ordered poses: 24 different rows (a different axis or number of
\* quarter turns in each), the same rows cut to 2 columns, 10 rows, 30 rows.
PoseArg(kind) ==
    CASE kind = "none"  -> None
      [] kind = "P"     -> [k \in Joints |-> Unit((k % 3) + 1, (k \div 3) + 1)]
      [] kind = "zero"  -> [k \in Joints |-> Zero3]
      [] kind = "cols2" -> [k \in Joints |-> <<(k % 3) - 1, 1>>]
      [] kind = "short" -> [k \in 0 .. 9 |-> Unit((k % 3) + 1, 1)]
      [] OTHER          -> [k \in 0 .. 29 |-> Unit((k % 3) + 1, (k % 4) + 1)]

BetaArg(kind) ==
    CASE kind = "none" -> None
      [] kind = "B"  -> [k \in 0 .. (NK - 1) |-> k + 1]
      [] kind = "Z"  -> [k \in 0 .. (NK - 1) |-> 0]
      [] OTHER       -> [k \in 0 .. NK |-> 1]

TransArg(kind) ==
    CASE kind = "none" -> None
      [] kind = "T" -> <<1, -2, 3>>
      [] kind = "Z" -> Zero3
      [] OTHER      -> <<1, 1>>

\* The calls of set_params the model makes: (pose, beta, trans), None for an
\* argument not given.
SetParamsCalls ==
    { <<"P", "B", "T">>, <<"none", "B", "none">>,
      <<"none", "none", "none">>, <<"zero", "Z", "Z">>,
      <<"cols2", "none", "none">>, <<"short", "none", "none">>,
      <<"long", "none", "none">>,
      <<"none", "long", "none">>, <<"none", "none", "short">> }

\* What load_smpl_params is called with: the number of axes of pose_params
\* and the length of shape_params.
SmplParams ==
    { [pose_ndim |-> 3, shape_len |-> BetaLen - ShapeFrom],
      [pose_ndim |-> 3, shape_len |-> ShapeFrom],
      [pose_ndim |-> 2, shape_len |-> BetaLen - ShapeFrom] }

\* Values np.random.rand may draw for the entries of the local beta.
RandomDraws == {-5, 4}

\* ------------------------------------------------------------------ state
VARIABLES
    data,      \* the content of the data files
    status,    \* "new" before RaBitModel(), then "ready" or "failed"
    rig,       \* the attributes loaded from the data files
    pose, beta, trans,
    verts, J, R, v_posed,
    call,      \* the last call made on the object and its arguments
    outcome,   \* of that call: "returned" or "raised"
    ret,       \* what it returned
    early      \* joints whose parent transform the last update read unwritten

vars == <<data, status, rig, pose, beta, trans, verts, J, R, v_posed,
          call, outcome, ret, early>>

Self == [rig |-> rig, pose |-> pose, beta |-> beta, trans |-> trans,
         verts |-> verts, J |-> J, R |-> R, v_posed |-> v_posed]

Store(o) ==
    /\ rig' = o.rig
    /\ pose' = o.pose
    /\ beta' = o.beta
    /\ trans' = o.trans
    /\ verts' = o.verts
    /\ J' = o.J
    /\ R' = o.R
    /\ v_posed' = o.v_posed

Call(op, p, b, t) == [op |-> op, pose |-> p, beta |-> b, trans |-> t]

Init ==
    /\ data \in DataSets
    /\ status = "new"
    /\ rig = None /\ pose = None /\ beta = None /\ trans = None
    /\ verts = None /\ J = None /\ R = None /\ v_posed = None
    /\ call = Call("none", "none", "none", "none")
    /\ outcome = "none" /\ ret = None /\ early = {}

\* The object as __init__ has it before its call of update (lines 43-98).
NewObject(d) ==
    [ rig     |-> LoadRig(d),
      pose    |-> [i \in 0 .. (NJ - 2) |-> Zero3],
      beta    |-> [k \in 0 .. (Size(d.pcamat) - 1) |-> 0],
      trans   |-> Zero3,
      verts   |-> None, J |-> None, R |-> None, v_posed |-> None ]

\* The caller after RaBitModel() ended with r.
Constructed(r) ==
    IF r.ok
    THEN /\ status' = "ready"
         /\ Store(r.o)
         /\ outcome' = "returned"
         /\ early' = r.early
    ELSE /\ status' = "failed"
         /\ outcome' = "raised"
         /\ UNCHANGED <<rig, pose, beta, trans, verts, J, R, v_posed, early>>

\* The object and the caller after a call on the object ended with r.
Called(r, returns_verts) ==
    /\ Store(r.o)
    /\ outcome' = IF r.ok THEN "returned" ELSE "raised"
    /\ ret' = IF r.ok /\ returns_verts THEN r.o.verts ELSE None
    /\ early' = IF r.ok THEN r.early ELSE early

\* RaBitModel(): an exception of update leaves the caller without an object.
Construct ==
    /\ status = "new"
    /\ \E empty \in MemoryFor(ParentTable(data.ktree_table)) :
          Constructed(update(NewObject(data), empty))
    /\ call' = Call("__init__", "none", "none", "none")
    /\ UNCHANGED <<data, ret>>

\* pose[self.reorder_index, :] of line 146 raises for an index past the rows.
ReorderFits(reorder_index, p) ==
    \A i \in DOMAIN reorder_index : InRange(reorder_index[i], Size(p))

\* ReorderPose dropping the last row in place of the first: pose[:-1, :].
ReorderPose_dropLast(reorder_index, p) ==
    [i \in 0 .. (Size(reorder_index) - 2) |->
        p[PyIndex(reorder_index[i], Size(p))]]

\* Lines 146-147: the rows taken in reorder_index order, the first dropped.
ReorderPose(reorder_index, p) ==
    [i \in 0 .. (Size(reorder_index) - 2) |->
        p[PyIndex(reorder_index[i + 1], Size(p))]]

\* Lines 145-151: the attributes set_params assigns before it calls update.
AssignParams(o, p, b, t) ==
    [o EXCEPT !.pose  = IF p = None THEN @ ELSE ReorderPose(o.rig.reorder_index, p),
              !.beta  = IF b = None THEN @ ELSE b,
              !.trans = IF t = None THEN @ ELSE t]

\* set_params without its call of update: the attributes are assigned and
\* the old verts returned.
set_params_noUpdate(o, p, b, t, empty) ==
    IF p # None /\ ~ReorderFits(o.rig.reorder_index, p)
    THEN [ok |-> FALSE, early |-> {}, o |-> o]
    ELSE [ok |-> TRUE, early |-> {}, o |-> AssignParams(o, p, b, t)]

\* set_params (lines 145-154).
set_params(o, p, b, t, empty) ==
    IF p # None /\ ~ReorderFits(o.rig.reorder_index, p)
    THEN [ok |-> FALSE, early |-> {}, o |-> o]
    ELSE update(AssignParams(o, p, b, t), empty)

SetParams ==
    /\ status = "ready"
    /\ \E c \in SetParamsCalls, empty \in MemoryFor(rig.parent) :
          /\ Called(set_params(Self, PoseArg(c[1]), BetaArg(c[2]), TransArg(c[3]), empty),
                    TRUE)
          /\ call' = Call("set_params", c[1], c[2], c[3])
    /\ UNCHANGED <<data, status>>

\* A direct call of update.
Update ==
    /\ status = "ready"
    /\ \E empty \in MemoryFor(rig.parent) : Called(update(Self, empty), FALSE)
    /\ call' = Call("update", "none", "none", "none")
    /\ UNCHANGED <<data, status>>

\* load_smpl_params (lines 360-369): theta, beta and trans are locals that
\* nothing reads; the transpose needs three axes and beta[10:] = shape_params
\* needs shape_params to broadcast onto the 490 entries.
load_smpl_params(o, smpl_params, draw, empty) ==
    IF \/ smpl_params.pose_ndim # 3                                 \* line 362
       \/ ~(smpl_params.shape_len \in {1, BetaLen - ShapeFrom})     \* line 365
    THEN [ok |-> FALSE, early |-> {}, o |-> o]
    ELSE update(o, empty)                                           \* line 369

LoadSmplParams ==
    /\ status = "ready"
    /\ \E sp \in SmplParams, draw \in RandomDraws, empty \in MemoryFor(rig.parent) :
          Called(load_smpl_params(Self, sp, draw, empty), FALSE)
    /\ call' = Call("load_smpl_params", "none", "none", "none")
    /\ UNCHANGED <<data, status>>

Next == Construct \/ SetParams \/ Update \/ LoadSmplParams

Spec == Init /\ [][Next]_vars

\* ----------------------------------------------------------------- claims
ZeroPose == [i \in 0 .. (NJ - 2) |-> Zero3]
ZeroBeta == [k \in 0 .. (NK - 1) |-> 0]

\* Every row of the weight matrix sums to 1.
RowsSumToOne(weights) ==
    \A v \in DOMAIN weights : SumTo(weights[v], Size(weights[v])) = WeightDen

\* x is, per axis, the midpoint of the extremes of the vertices idx of vp.
IsMidpoint(x, idx, vp) ==
    \A a \in Axes :
        \E lo \in DOMAIN idx, hi \in DOMAIN idx :
            /\ \A k \in DOMAIN idx : /\ vp[idx[lo]][a] <= vp[idx[k]][a]
                                     /\ vp[idx[k]][a] <= vp[idx[hi]][a]
            /\ 2 * x[a] = vp[idx[lo]][a] + vp[idx[hi]][a]

\* C1: with every weight row summing to 1, an update at pose, beta and trans
\* all zero leaves verts equal to v_template.
C1_ZeroStateGivesTemplate ==
    ( /\ status = "ready" /\ outcome = "returned"
      /\ RowsSumToOne(rig.weights)
      /\ pose = ZeroPose /\ beta = ZeroBeta /\ trans = Zero3 )
    => verts = rig.v_template

\* C2: when a call has returned, verts and J are what update gives for the
\* stored pose, beta and trans, and set_params returned those verts.
C2_ReturnedIsFresh ==
    (status = "ready" /\ outcome = "returned")
    => /\ \E empty \in MemoryFor(rig.parent) :
             /\ update(Self, empty).ok
             /\ update(Self, empty).o.verts = verts
             /\ update(Self, empty).o.J = J
       /\ call.op = "set_params" => ret = verts

\* C2 happens: set_params with a pose, a beta and a trans has returned
\* deformed vertices.
C2_Witness ==
    /\ status = "ready" /\ outcome = "returned"
    /\ call = Call("set_params", "P", "B", "T")
    /\ ret = verts /\ verts # rig.v_template

\* The call c of set_params has an argument of wrong dimensionality.
WrongDims(c) ==
    c.pose \in {"cols2", "short", "long"} \/ c.beta = "long" \/ c.trans = "short"

\* C3: a set_params with an argument of wrong dimensionality raises and
\* leaves pose, beta, trans and verts as they were.
C3_FailedCallKeepsState ==
    [][ (call'.op = "set_params" /\ WrongDims(call'))
        => /\ outcome' = "raised"
           /\ pose' = pose /\ beta' = beta /\ trans' = trans /\ verts' = verts ]_vars

\* C4: no model exists when a joint's parent index is outside 0..23 or the
\* weight matrix and the template mesh differ in their number of rows.
C4_BadTablesRejected ==
    status = "ready"
    => /\ \A i \in 1 .. (NJ - 1) : data.ktree_table[i][2] \in 0 .. (NJ - 1)
       /\ Size(data.weight_matrix) = Size(data.points)

C6_StoredPoseFollowsNames ==
    (status = "ready" /\ call.op = "set_params" /\ call.pose \in {"P", "zero", "cols2"})
    => /\ Size(pose) = NJ - 1
       /\ \A i \in 1 .. (NJ - 1), k \in DOMAIN data.pose_order :
             data.ktree_table[i][1] = data.pose_order[k]
             => pose[i - 1] = PoseArg(call.pose)[k]

\* C6 happens: a pose was stored under an order that moves rows.
C6_Witness ==
    /\ status = "ready" /\ call.op = "set_params" /\ call.pose = "P"
    /\ outcome = "returned"
    /\ \E i \in 1 .. (NJ - 1) :
          /\ pose[i - 1] # PoseArg("P")[i]
          /\ pose[i - 1] = PoseArg("P")[rig.reorder_index[i]]

\* C7: once the constructor has returned, no call changes the rig.
C7_RigNeverChanges == [][status = "ready" => rig' = rig]_vars

\* C7 happens: calls with a non-zero beta have returned and the rig is the
\* one loaded.
C7_Witness ==
    /\ status = "ready" /\ outcome = "returned"
    /\ call.op = "load_smpl_params"
    /\ beta # ZeroBeta /\ pose # ZeroPose
    /\ rig = LoadRig(data)

\* C8: the reorder index is a permutation of 0..23.
C8_ReorderIsPermutation ==
    status = "ready" => {rig.reorder_index[i] : i \in Joints} = Joints

\* C9: every joint's parent has a smaller index, and no update reads a
\* transform it has not yet written.
C9_ParentComputedFirst ==
    (status = "ready" /\ outcome = "returned")
    => /\ early = {}
       /\ \A i \in 1 .. (NJ - 1) : rig.parent[i] < i

Rot(M) ==
    << <<M[1][1], M[1][2], M[1][3]>>,
       <<M[2][1], M[2][2], M[2][3]>>,
       <<M[3][1], M[3][2], M[3][3]>> >>
Translation(M) == <<M[1][4], M[2][4], M[3][4]>>
LeftColumns(M) == [r \in 1 .. 4 |-> <<M[r][1], M[r][2], M[r][3]>>]
Mul3(A, B) ==
    [r \in Axes |-> [c \in Axes |->
        A[r][1] * B[1][c] + A[r][2] * B[2][c] + A[r][3] * B[3][c]]]

\* G[i] is G[p] composed with the local transform of joint i: rotation
\* R[i], offset J[i] - J[p].
ComposedWith(Gi, Gp, Ri, Ji, Jp) ==
    /\ Rot(Gi) = Mul3(Rot(Gp), Ri) @@ <<>>
    /\ Translation(Gi) =
          Translation(pack(MatVec4(Gp, <<Ji[1] - Jp[1], Ji[2] - Jp[2],
                                         Ji[3] - Jp[3], 1>>)))

\* F is G with G . [Ji; 0] subtracted from its last column and nothing else
\* changed.
RestCorrected(F, G, Ji) ==
    /\ LeftColumns(F) = LeftColumns(G)
    /\ \A r \in 1 .. 4 :
          F[r][4] = G[r][4] - MatVec4(G, <<Ji[1], Ji[2], Ji[3], 0>>)[r]

\* The world transforms G as the loop of update leaves them and F as they
\* are after the rest-pose correction satisfy the recurrence.
Accumulated(G, F) ==
    /\ \A i \in 1 .. (NJ - 1) :
          ComposedWith(G[i], G[PyIndex(rig.parent[i], NJ)], R[i],
                       J[i], J[PyIndex(rig.parent[i], NJ)])
    /\ \A i \in Joints : RestCorrected(F[i], G[i], J[i])

\* The array G of the update that computed the stored R and J, np.empty's
\* memory holding empty.
WorldG(empty) == Array(WorldTransforms(rig.parent, R, J, empty).G)

\* C11: after an update, for every joint i > 0 the rotation block of G[i]
\* is that of G[parent(i)] times R[i] and its translation is G[parent(i)]
\* applied to J[i] - J[parent(i)]; the rest-pose correction keeps every
\* rotation block and subtracts G[i] . [J[i]; 0] from the last column only.
C11_WorldTransformsCompose ==
    (status = "ready" /\ outcome = "returned")
    => \A empty \in MemoryFor(rig.parent) :
          Accumulated(WorldG(empty), RemoveRest(WorldG(empty), J))

\* C12: a load_smpl_params that returns leaves pose, beta and trans as they
\* were and verts equal to the verts before the call, whatever its argument
\* and whatever random shape vector it drew.
C12_LoadSmplParamsKeepsState ==
    [][ (call'.op = "load_smpl_params" /\ outcome' = "returned")
        => /\ pose' = pose /\ beta' = beta /\ trans' = trans
           /\ verts' = verts ]_vars

====
